---- MODULE Spec2Model ----
(***************************************************************************)
(* Model of packages/services/lib/codecs/netty.js: the client bridge       *)
(* (NettyBridge), the server gateway (NettyGateway) and the framed codec   *)
(* (NettyEncoder / NettyDecoder / NettyPacket).                            *)
(*                                                                         *)
(* Sequential JavaScript is modelled functionally: every method is an      *)
(* operator from an object state (a record) to the object state after the  *)
(* call, so that a handler together with every call it makes is one step.  *)
(***************************************************************************)
EXTENDS Integers, Sequences, FiniteSets, TLC

VARIABLES bridge, last, codec, net

vars == <<bridge, last, codec, net>>

\* ------------------------------------------------------------------ bounds
MaxCalls == 2
MaxId == 2
MaxObjs == 2

CallIdx == 1..MaxCalls
Ids == 1..MaxId

\* ------------------------------------------------------------ value spaces
Null == "null"
Undefined == "undefined"

ClientHashes == {"ca", "cb"}
ServerHashes == {"sh"}
GoodProtocols == {"P"}
BadProtocol == "not json"
Matches == {"BOTH", "CLIENT", "NONE"}

\* The errors the bridge builds itself.
BridgeClosed == "bridge closed"
BridgeDestroyed == "bridge destroyed"
LabelsError == "labels error"
EndedError == "readable socket ended before writable"

\* The codec state of the specifications that do not exercise it.
CodecIdle == [type |-> "res", objs |-> <<>>, stream |-> <<>>, pos |-> 0]
NetIdle == [up |-> <<>>, down |-> <<>>]

\* ------------------------------------------------------------------ bridge
\* One call issued through the channel: the handler registered on its trace
\* (handler is the id its closure holds, 0 when none is registered), and the
\* history of what happened to it: how many times its continuation was
\* invoked, by which paths its entry was untracked, and how many times its
\* request was written to the encoder.
NewCall ==
  [ issued |-> FALSE, handler |-> 0,
    cbCount |-> 0, untracks |-> <<>>, sends |-> 0 ]

BridgeInit ==
  [ closed |-> FALSE,
    callbacks |-> <<>>,
    serverServices |-> [h \in ServerHashes |-> Null],
    hashes |-> [h \in ClientHashes |-> Null],
    released |-> FALSE,
    readable |-> "open",
    calls |-> [c \in CallIdx |-> NewCall],
    events |-> <<>>,
    thrown |-> "none" ]

\* _callbacks is a Map keyed by id: a function whose domain is the ids tracked.
PendingIds(s) == DOMAIN s.callbacks
PendingCalls(s) == {s.callbacks[i].preq.call : i \in PendingIds(s)}
MapDelete(m, k) == [x \in (DOMAIN m) \ {k} |-> m[x]]
MapSet(m, k, v) == [x \in (DOMAIN m) \cup {k} |-> IF x = k THEN v ELSE m[x]]

Fresh(s) == [s EXCEPT !.events = <<>>, !.thrown = "none"]

\* What a step does that its environment observes, in order: events emitted
\* to the bridge's listeners, continuations invoked, objects written to the
\* encoder.
NoArg == [err |-> Null, svc |-> Null, pkt |-> Null]
NoObj == [id |-> 0, clientHash |-> Null, serverHash |-> Null, meta |-> Null,
          clientProtocol |-> Null, piped |-> FALSE]
Event(type, c, arg, obj) == [type |-> type, call |-> c, arg |-> arg, obj |-> obj]
Emit(s, name, err) ==
  [s EXCEPT !.events = Append(@, Event(name, 0, [NoArg EXCEPT !.err = err], NoObj))]
InvokeCb(s, c, arg) ==
  [s EXCEPT !.events = Append(@, Event("cb", c, arg, NoObj)),
            !.calls[c].cbCount = @ + 1]

Release(s) ==
  IF s.released
    THEN [s EXCEPT !.thrown = "TypeError in _release"]
    ELSE [s EXCEPT !.released = TRUE]

Untrack(s, id) ==
  LET s1 == [s EXCEPT !.callbacks = MapDelete(@, id)]
  IN IF s1.closed /\ PendingIds(s1) = {} THEN Release(s1) ELSE s1

\* close()
Close(s) ==
  IF s.closed THEN s ELSE Emit([s EXCEPT !.closed = TRUE], "close", Null)

\* Trace.onceInactive(fn): the handler is registered on the (active) trace.
OnceInactive(s, c, id) == [s EXCEPT !.calls[c].handler = id]

\* The finalizer onceInactive returns: TRUE the first time it is invoked
\* while the handler has not fired, and it unregisters the handler.
CleanupResult(s, c) == s.calls[c].handler # 0
CleanupEffect(s, c) == [s EXCEPT !.calls[c].handler = 0]

\* Mutant of WrappedCb: the continuation is not guarded by the finalizer.
WrappedCbUnguarded(s, id, arg) ==
  LET c == s.callbacks[id].preq.call
      s2 == Untrack(s, id)
  IN InvokeCb([s2 EXCEPT !.calls[c].untracks =
                 Append(@, IF arg.err = Null THEN "delivered" ELSE "destroyed")],
              c, arg)

\* The cb stored in _callbacks by _track: (...args) => { if (cleanup()) ... }
WrappedCb(s, id, arg) ==
  LET c == s.callbacks[id].preq.call
  IN IF CleanupResult(s, c)
       THEN LET s1 == CleanupEffect(s, c)
                s2 == Untrack(s1, id)
            IN InvokeCb([s2 EXCEPT !.calls[c].untracks =
                           Append(@, IF arg.err = Null THEN "delivered"
                                                       ELSE "destroyed")],
                        c, arg)
       ELSE s

\* The arguments a continuation is invoked with: (err) or (null, packet).
CbError(e) == [NoArg EXCEPT !.err = e]
CbPacket(svc, pkt) == [err |-> Null, svc |-> svc, pkt |-> pkt]

Interrupt == CbError(BridgeDestroyed)

\* for (const obj of this._callbacks.values()) obj.cb(interruptErr)
RECURSIVE InterruptAll(_, _)
InterruptAll(s, ids) ==
  IF ids = {} THEN s
  ELSE LET i == CHOOSE x \in ids : \A y \in ids : x <= y
           s1 == IF i \in PendingIds(s) THEN WrappedCb(s, i, Interrupt) ELSE s
       IN InterruptAll(s1, ids \ {i})

\* Mutant of Destroy: the pending continuations are not interrupted.
DestroyNoInterrupt(s, err) ==
  LET s1 == Close(s)
  IN IF err # Null THEN Emit(s1, "error", err) ELSE s1

\* destroy(err)
Destroy(s, err) ==
  LET s1 == Close(s)
      s2 == InterruptAll(s1, PendingIds(s1))
  IN IF err # Null THEN Emit(s2, "error", err) ELSE s2

\* JSON.stringify(clientSvc.protocol)
ProtocolOf(svc) == IF svc = "ca" THEN "PA" ELSE "PB"

\* _send(preq, meta, includePtcl): one object written to the encoder. The
\* encoder is piped into the writable until _release unpipes it.
Send(s, preq, meta, includePtcl) ==
  LET clientHash == preq.service
      serverHash == IF s.hashes[clientHash] # Null
                      THEN s.hashes[clientHash] ELSE clientHash
      obj == [ id |-> preq.id,
               clientHash |-> clientHash, serverHash |-> serverHash,
               meta |-> meta,
               clientProtocol |-> IF includePtcl THEN ProtocolOf(clientHash)
                                                 ELSE Undefined,
               piped |-> ~s.released ]
  IN [s EXCEPT !.events = Append(@, Event("write", preq.call, NoArg, obj)),
               !.calls[preq.call].sends = @ + 1]

\* _track(trace, preq, cb): the bridge after the call, and the meta returned.
Track(s, preq, labelsOk) ==
  LET c == preq.call IN
  IF s.closed
    THEN [ s |-> InvokeCb(s, c, CbError(BridgeClosed)),
           meta |-> Undefined ]
  ELSE IF ~labelsOk
    THEN [ s |-> InvokeCb(s, c, CbError(LabelsError)),
           meta |-> Undefined ]
  ELSE LET meta == "meta"
           s1 == OnceInactive(s, c, preq.id)
       IN [ s |-> [s1 EXCEPT !.callbacks = MapSet(@, preq.id,
                       [preq |-> preq, meta |-> meta, retried |-> FALSE])],
            meta |-> meta ]

\* The function the _channel getter wraps: _track, then _send.
ChannelCall(s, preq, labelsOk) ==
  LET t == Track(s, preq, labelsOk)
  IN Send(t.s, preq, t.meta, FALSE)

\* new Service(JSON.parse(text)) succeeds on a protocol text only.
Parsable(text) == text \in GoodProtocols

NoHandshake ==
  [present |-> FALSE, match |-> Null, serverHash |-> Null, serverProtocol |-> Null]

\* The handshake responses a peer can put on the wire: for every match, no
\* server fields or a server hash with its protocol text; a protocol text
\* that does not parse, or one without its hash (neither path reads the
\* match); or no handshake at all.
Handshakes ==
  { h \in [ present : {TRUE}, match : Matches,
            serverHash : ServerHashes \cup {Null},
            serverProtocol : GoodProtocols \cup {BadProtocol, Null} ] :
      /\ h.serverHash = Null => h.serverProtocol # BadProtocol
      /\ h.serverHash # Null => h.serverProtocol # Null
      /\ (h.serverProtocol = BadProtocol
          \/ (h.serverHash = Null /\ h.serverProtocol # Null)) => h.match = "NONE" }
  \cup {NoHandshake}

\* Mutant of DeliverOrRetry: every NONE response triggers a retry.
DeliverOrRetryAlways(s, id, hs, serverSvc, pkt) ==
  LET obj == s.callbacks[id]
  IN IF hs.match = "NONE"
       THEN Send([s EXCEPT !.callbacks[id].retried = TRUE], obj.preq, obj.meta, TRUE)
       ELSE WrappedCb(s, id, CbPacket(serverSvc, pkt))

\* End of the decoder's data handler: retry once on NONE, deliver otherwise.
DeliverOrRetry(s, id, hs, serverSvc, pkt) ==
  LET obj == s.callbacks[id]
  IN IF hs.match = "NONE" /\ ~obj.retried
       THEN Send([s EXCEPT !.callbacks[id].retried = TRUE], obj.preq, obj.meta, TRUE)
       ELSE WrappedCb(s, id, CbPacket(serverSvc, pkt))

\* The decoder's 'data' handler of the bridge.
OnData(s, id, hs, pkt) ==
  IF id \notin PendingIds(s) THEN s
  ELSE IF ~hs.present THEN [s EXCEPT !.thrown = "TypeError"]
  ELSE
    LET clientSvc == s.callbacks[id].preq.service
        clientHash == clientSvc
    IN IF hs.serverHash # Null \/ hs.serverProtocol # Null
         THEN IF hs.serverHash = Null
                THEN [s EXCEPT !.thrown = "TypeError"]
              ELSE IF ~Parsable(hs.serverProtocol)
                \* catch (err) { destroy(err); ... }: no destroy is in scope.
                THEN [s EXCEPT !.thrown = "ReferenceError"]
              ELSE DeliverOrRetry(
                     [s EXCEPT !.serverServices[hs.serverHash] = hs.serverProtocol,
                               !.hashes[clientHash] = hs.serverHash],
                     id, hs, hs.serverProtocol, pkt)
         ELSE LET serverHash == s.hashes[clientHash]
                  serverSvc == IF serverHash # Null
                                 THEN s.serverServices[serverHash] ELSE clientSvc
              IN DeliverOrRetry(s, id, hs, serverSvc, pkt)

\* The handler _track registers on the trace: () => { this._untrack(id); }
OnInactive(s, c) ==
  LET s1 == [s EXCEPT !.calls[c].handler = 0,
                      !.calls[c].untracks = Append(@, "inactive")]
  IN Untrack(s1, s.calls[c].handler)

\* _onReadableEnd
OnReadableEnd(s) == IF ~s.closed THEN Destroy(s, EndedError) ELSE s

\* ------------------------------------------------------- bridge: the steps
\* What the step just taken was, and the bridge it was taken from.
Last(op, c, err, match) ==
  [ op |-> op, call |-> c, err |-> err, match |-> match,
    closed |-> bridge.closed, pending |-> PendingCalls(bridge),
    hs |-> NoHandshake, svc |-> Null ]

\* The step of a response to a pending call: also its handshake and the
\* client service of the call.
LastResponse(id, hs) ==
  [ Last("response", bridge.callbacks[id].preq.call, Null, hs.match)
      EXCEPT !.hs = hs, !.svc = bridge.callbacks[id].preq.service ]

NextCall == IF \E c \in CallIdx : ~bridge.calls[c].issued
              THEN CHOOSE c \in CallIdx :
                     ~bridge.calls[c].issued /\ \A d \in 1..(c-1) : bridge.calls[d].issued
              ELSE 0

\* channel.call(trace, preq, cb) with an active trace and an id no
\* outstanding call uses.
Call(id, svc, labelsOk) ==
  /\ NextCall # 0
  /\ id \notin PendingIds(bridge)
  /\ LET c == NextCall
         preq == [id |-> id, service |-> svc, call |-> c]
         s == [Fresh(bridge) EXCEPT !.calls[c].issued = TRUE]
     IN /\ bridge' = ChannelCall(s, preq, labelsOk)
        \* err: the error thrown by the serialization of the labels, which
        \* an open bridge only attempts.
        /\ last' = Last("call", c,
                        IF ~bridge.closed /\ ~labelsOk THEN LabelsError ELSE Null,
                        Null)
        /\ UNCHANGED <<codec, net>>

\* A response frame group reaches the decoder's data handler.
Response(id, hs) ==
  /\ bridge.readable = "open"
  /\ ~bridge.released
  /\ bridge' = OnData(Fresh(bridge), id, hs, "body")
  /\ last' = IF id \in PendingIds(bridge)
               THEN LastResponse(id, hs)
               ELSE Last("response", 0, Null, Null)
  /\ UNCHANGED <<codec, net>>

\* The trace of call c goes inactive (deadline reached or cancelled).
TraceInactive(c) ==
  /\ bridge.calls[c].handler # 0
  /\ bridge' = OnInactive(Fresh(bridge), c)
  /\ last' = Last("inactive", c, Null, Null)
  /\ UNCHANGED <<codec, net>>

UserClose ==
  /\ bridge' = Close(Fresh(bridge))
  /\ last' = Last("close", 0, Null, Null)
  /\ UNCHANGED <<codec, net>>

UserDestroy(err) ==
  /\ bridge' = Destroy(Fresh(bridge), err)
  /\ last' = Last("destroy", 0, err, Null)
  /\ UNCHANGED <<codec, net>>

ReadableEnd ==
  /\ bridge.readable = "open"
  /\ ~bridge.released
  /\ bridge' = OnReadableEnd([Fresh(bridge) EXCEPT !.readable = "done"])
  /\ last' = Last("readableEnd", 0, Null, Null)
  /\ UNCHANGED <<codec, net>>

ReadableError ==
  /\ bridge.readable = "open"
  /\ ~bridge.released
  /\ bridge' = Destroy([Fresh(bridge) EXCEPT !.readable = "done"], "stream error")
  /\ last' = Last("readableError", 0, "stream error", Null)
  /\ UNCHANGED <<codec, net>>

\* _onWritableFinish calls close(), which returns at once on a closed bridge.
WritableFinish ==
  /\ ~bridge.closed
  /\ bridge' = Close(Fresh(bridge))
  /\ last' = Last("writableFinish", 0, Null, Null)
  /\ UNCHANGED <<codec, net>>

InitBridge ==
  /\ codec = CodecIdle
  /\ net = NetIdle
  /\ bridge = BridgeInit
  /\ last = [ op |-> "init", call |-> 0, err |-> Null, match |-> Null,
              closed |-> FALSE, pending |-> {},
              hs |-> NoHandshake, svc |-> Null ]

NextBridge ==
  \/ \E id \in Ids, svc \in ClientHashes, labelsOk \in BOOLEAN :
       Call(id, svc, labelsOk)
  \/ \E id \in Ids :
       \* the handler returns before it reads the handshake of an unknown id
       \E hs \in IF id \in PendingIds(bridge) THEN Handshakes ELSE {NoHandshake} :
         Response(id, hs)
  \/ \E c \in CallIdx : TraceInactive(c)
  \/ UserClose
  \/ \E err \in {Null, "user error"} : UserDestroy(err)
  \/ ReadableEnd
  \/ ReadableError
  \/ WritableFinish

SpecBridge == InitBridge /\ [][NextBridge]_vars

\* ------------------------------------------------------ bridge: the claims
Events(type) == SelectSeq(bridge.events, LAMBDA e : e.type = type)
CbEvents(c) == SelectSeq(bridge.events, LAMBDA e : e.type = "cb" /\ e.call = c)
WriteEvents(c) == SelectSeq(bridge.events, LAMBDA e : e.type = "write" /\ e.call = c)
IsPending(c) == c \in PendingCalls(bridge)
DestroyOps == {"destroy", "readableEnd", "readableError"}

\* C1: the continuation of a call is invoked at most once, and the entry of
\* a tracked call leaves pending by exactly one of: delivery of a response,
\* inactivation of its trace (no continuation invoked by the bridge), destroy
\* (continuation invoked with 'bridge destroyed').
C1_AtMostOnce ==
  \A c \in CallIdx :
    LET call == bridge.calls[c] IN
    /\ call.cbCount <= 1
    /\ Len(call.untracks) <= 1
    /\ IsPending(c) => (call.untracks = <<>> /\ call.cbCount = 0 /\ call.handler # 0)
    /\ (call.issued /\ ~IsPending(c)) => (call.cbCount = 1 \/ call.untracks = <<"inactive">>)
    /\ call.untracks = <<"inactive">> => call.cbCount = 0
    /\ call.untracks \in {<<"delivered">>, <<"destroyed">>} => call.cbCount = 1
    /\ \A k \in 1..Len(CbEvents(c)) :
         LET arg == CbEvents(c)[k].arg IN
         /\ arg.err = Null => (last.op = "response" /\ call.untracks = <<"delivered">>)
         /\ arg.err = BridgeDestroyed =>
              (last.op \in DestroyOps /\ call.untracks = <<"destroyed">>)

\* A late response is ignored after one call was delivered and the trace of
\* another went inactive.
C1_Witness ==
  /\ last.op = "response" /\ last.call = 0
  /\ \E c, d \in CallIdx :
       /\ bridge.calls[c].untracks = <<"delivered">>
       /\ bridge.calls[d].untracks = <<"inactive">>

C5_Destroy ==
  last.op \in {"destroy", "readableError"} =>
    /\ bridge.closed
    /\ PendingIds(bridge) = {}
    /\ \A c \in last.pending :
         /\ Len(CbEvents(c)) = 1
         /\ CbEvents(c)[1].arg = Interrupt
    /\ \A c \in CallIdx \ last.pending : CbEvents(c) = <<>>
    /\ IF last.err = Null
         THEN Events("error") = <<>>
         ELSE Len(Events("error")) = 1 /\ Events("error")[1].arg.err = last.err

\* destroy(error) with a non-nil error has just interrupted two pending calls.
C5_Witness ==
  /\ last.op = "destroy" /\ last.err # Null
  /\ Cardinality(last.pending) = 2

\* C6: a call made on a closed bridge fails its continuation with 'bridge
\* closed', adds no entry to pending and writes nothing to the encoder.
C6_NoSendAfterClose ==
  (last.op = "call" /\ last.closed) =>
    /\ Len(CbEvents(last.call)) = 1
    /\ CbEvents(last.call)[1].arg = CbError(BridgeClosed)
    /\ ~IsPending(last.call)
    /\ Events("write") = <<>>

\* C7: a closed bridge with no pending call has released its streams.
C7_ReleasedWhenDrained ==
  (bridge.closed /\ PendingIds(bridge) = {}) => bridge.released

\* C8: when the readable errors or ends, every call pending at that moment is
\* interrupted with 'bridge destroyed' and pending becomes empty, whether or
\* not close() was called before.
C8_ReadableEndDestroys ==
  last.op \in {"readableEnd", "readableError"} =>
    /\ PendingIds(bridge) = {}
    /\ \A c \in last.pending :
         /\ Len(CbEvents(c)) = 1
         /\ CbEvents(c)[1].arg = Interrupt

\* =================================================================== codec
\* Bytes are naturals below 256; buffers are sequences of bytes. Optional
\* values are sequences of length at most one: <<>> is null, <<v>> is v.
\* A map is a sequence of <<key, value>> pairs.
None == <<>>
Some(v) == <<v>>

Drop(buf, n) == SubSeq(buf, n + 1, Len(buf))
Take(buf, n) == SubSeq(buf, 1, n)

RECURSIVE Concat(_)
Concat(bufs) == IF bufs = <<>> THEN <<>> ELSE Head(bufs) \o Concat(Tail(bufs))

\* buf.writeInt32BE(n) / buf.readInt32BE(off): 32-bit two's complement.
\* (the sign bit is handled apart: TLC's integers are 32 bits wide)
Int32BE(n) ==
  LET m == IF n < 0 THEN (n + 2147483647) + 1 ELSE n
  IN << (IF n < 0 THEN 128 ELSE 0) + m \div 16777216,
        (m \div 65536) % 256, (m \div 256) % 256, m % 256 >>

ReadInt32BE(buf, off) ==
  LET m == (buf[off + 1] % 128) * 16777216 + buf[off + 2] * 65536
           + buf[off + 3] * 256 + buf[off + 4]
  IN IF buf[off + 1] >= 128 THEN (m - 2147483647) - 1 ELSE m

\* ---- the schema codec (utils.*Type): Avro binary encoding ----
\* Size of the MD5 fixed type of the handshake records.
HashLen == 16

Failed == [ok |-> FALSE, value |-> <<>>, rest |-> <<>>]
Read(v, rest) == [ok |-> TRUE, value |-> v, rest |-> rest]

\* long: zig-zag varint; the values of the model fit one byte.
WLong(n) == << 2 * n >>
ReadLong(buf) ==
  IF buf = <<>> \/ Head(buf) >= 128 THEN [ok |-> FALSE, value |-> 0, rest |-> <<>>]
  ELSE LET b == Head(buf)
       IN [ ok |-> TRUE,
            value |-> IF b % 2 = 0 THEN b \div 2 ELSE 0 - ((b + 1) \div 2),
            rest |-> Tail(buf) ]

\* bytes and string: length, then the bytes.
WBytes(b) == WLong(Len(b)) \o b
BytesAfter(n) ==
  IF ~n.ok \/ n.value < 0 \/ Len(n.rest) < n.value THEN Failed
  ELSE Read(Take(n.rest, n.value), Drop(n.rest, n.value))
ReadBytes(buf) == BytesAfter(ReadLong(buf))

\* fixed(HashLen)
ReadFixed(buf) ==
  IF Len(buf) < HashLen THEN Failed ELSE Read(Take(buf, HashLen), Drop(buf, HashLen))

\* union ["null", X]: branch index, then the value.
WUnion(u, W(_)) == IF u = None THEN WLong(0) ELSE WLong(1) \o W(u[1])
Branch(v) == IF v.ok THEN Read(Some(v.value), v.rest) ELSE Failed
UnionAfter(i, R(_)) ==
  IF ~i.ok THEN Failed
  ELSE IF i.value = 0 THEN Read(None, i.rest)
  ELSE IF i.value = 1 THEN Branch(R(i.rest))
  ELSE Failed
ReadUnion(buf, R(_)) == UnionAfter(ReadLong(buf), R)

\* map<bytes>: blocks of count, entries; a zero count ends the map.
RECURSIVE WEntries(_)
WEntries(m) ==
  IF m = <<>> THEN <<>>
  ELSE WBytes(Head(m)[1]) \o WBytes(Head(m)[2]) \o WEntries(Tail(m))
WMap(m) == IF m = <<>> THEN WLong(0) ELSE WLong(Len(m)) \o WEntries(m) \o WLong(0)

EntryValue(key, v) == IF v.ok THEN Read(<<key, v.value>>, v.rest) ELSE Failed
EntryAfter(k) == IF k.ok THEN EntryValue(k.value, ReadBytes(k.rest)) ELSE Failed
ReadEntry(buf) == EntryAfter(ReadBytes(buf))

RECURSIVE ReadEntries(_, _, _)
EntriesAfter(e, n, acc) ==
  IF e.ok THEN ReadEntries(e.rest, n - 1, Append(acc, e.value)) ELSE Failed
ReadEntries(buf, n, acc) ==
  IF n = 0 THEN Read(acc, buf) ELSE EntriesAfter(ReadEntry(buf), n, acc)

RECURSIVE ReadBlocks(_, _)
BlockAfter(es) == IF es.ok THEN ReadBlocks(es.rest, es.value) ELSE Failed
BlocksAfter(n, acc) ==
  IF ~n.ok \/ n.value < 0 THEN Failed
  ELSE IF n.value = 0 THEN Read(acc, n.rest)
  ELSE BlockAfter(ReadEntries(n.rest, n.value, acc))
ReadBlocks(buf, acc) == BlocksAfter(ReadLong(buf), acc)
ReadMap(buf) == ReadBlocks(buf, <<>>)

\* handshakeRequestType: clientHash, clientProtocol, serverHash, meta.
\* handshakeResponseType: match, serverProtocol, serverHash, meta.
\* A handshake is the sequence of its four fields; null is <<>>.
WHandshake(type, h) ==
  IF type = "req"
    THEN h[1] \o WUnion(h[2], WBytes) \o h[3] \o WUnion(h[4], WMap)
    ELSE WLong(h[1]) \o WUnion(h[2], WBytes) \o WUnion(h[3], LAMBDA x : x)
         \o WUnion(h[4], WMap)

EnumAfter(i) == IF i.ok /\ i.value \in 0..2 THEN Read(i.value, i.rest) ELSE Failed
ReadEnum(buf) == EnumAfter(ReadLong(buf))

ReadOptBytes(buf) == ReadUnion(buf, ReadBytes)
ReadOptFixed(buf) == ReadUnion(buf, ReadFixed)
ReadOptMap(buf) == ReadUnion(buf, ReadMap)

\* The next field of a record, read after the fields read so far.
FieldValue(fields, f) ==
  IF f.ok THEN Read(Append(fields, f.value), f.rest) ELSE Failed
Field(r, R(_)) == IF r.ok THEN FieldValue(r.value, R(r.rest)) ELSE Failed

ReadHandshake(type, buf) ==
  IF type = "req"
    THEN Field(Field(Field(Field(Read(<<>>, buf),
                                 ReadFixed), ReadOptBytes), ReadFixed), ReadOptMap)
    ELSE Field(Field(Field(Field(Read(<<>>, buf),
                                 ReadEnum), ReadOptBytes), ReadOptFixed), ReadOptMap)

\* ---- NettyPacket ----
ToPayload(pkt) == WMap(pkt.headers) \o pkt.body

NoPacket == [headers |-> <<>>, body |-> <<>>]

\* NettyPacket.forPayload: throws 'truncated request headers'.
PayloadAfter(m) ==
  IF m.ok THEN [ok |-> TRUE, packet |-> [headers |-> m.value, body |-> m.rest]]
  ELSE [ok |-> FALSE, packet |-> NoPacket]
ForPayload(buf) == PayloadAfter(ReadMap(buf))

\* ---- NettyEncoder ----
\* _encode: the payload frame, preceded by the handshake frame if any.
Encode(type, obj) ==
  IF obj.handshake # None
    THEN << WHandshake(type, obj.handshake), ToPayload(obj.packet) >>
    ELSE << ToPayload(obj.packet) >>

RECURSIVE Frames(_)
Frames(bufs) ==
  IF bufs = <<>> THEN <<>>
  ELSE Int32BE(Len(Head(bufs))) \o Head(bufs) \o Frames(Tail(bufs))

\* _transform: header [id, number of frames], then each frame [length, bytes].
EncoderTransform(type, obj) ==
  LET bufs == Encode(type, obj)
  IN Int32BE(obj.id) \o Int32BE(Len(bufs)) \o Frames(bufs)

\* ---- NettyDecoder ----
DecoderInit(type) ==
  [ handshakeType |-> type, expectHandshake |-> TRUE,
    idSet |-> FALSE, id |-> 0, frameCount |-> 0,
    buf |-> <<>>, bufs |-> <<>>,
    out |-> <<>>, error |-> "none", trailingData |-> <<>> ]

\* The inner function decode(withHandshake) of _decode.
DecodeFailed(error) ==
  [ok |-> FALSE, error |-> error, handshake |-> None, packet |-> NoPacket]
DecodePacket(handshake, p) ==
  IF p.ok THEN [ok |-> TRUE, error |-> "none", handshake |-> handshake,
                packet |-> p.packet]
  ELSE DecodeFailed("truncated request headers")
DecodeBody(h) ==
  IF h.ok THEN DecodePacket(h.value, ForPayload(h.rest))
  ELSE DecodeFailed("truncated packet handshake")
DecodeWith(type, withHandshake, buf) ==
  DecodeBody(IF withHandshake THEN ReadHandshake(type, buf) ELSE Read(None, buf))

\* The mode of the second attempt in _decode's catch block:
\* decode(this._expectHandshake).
RetryMode(expectHandshake) == expectHandshake

\* catch (err) { decode(..) } of _decode: a second attempt if the first threw.
DecodeRetry(d, buf, first) ==
  IF first.ok THEN first
  ELSE DecodeWith(d.handshakeType, RetryMode(d.expectHandshake), buf)

\* _decode(id, buf): the object decoded, or the error thrown, and the
\* decoder's expectation afterwards.
Decoded(d, id, r) ==
  [ ok |-> r.ok, error |-> r.error,
    obj |-> [id |-> id, handshake |-> r.handshake, packet |-> r.packet],
    expectHandshake |-> IF r.ok /\ r.handshake = None /\ d.expectHandshake
                          THEN FALSE ELSE d.expectHandshake ]
Decode(d, id, buf) ==
  Decoded(d, id, DecodeRetry(d, buf, DecodeWith(d.handshakeType, d.expectHandshake, buf)))

\* The inner while loop of _transform: take the complete frames.
RECURSIVE ReadFrames(_, _)
ReadFrames(d, buf) ==
  IF /\ d.frameCount # 0
     /\ Len(buf) >= 4
     /\ Len(buf) >= ReadInt32BE(buf, 0) + 4
    THEN ReadFrames([d EXCEPT !.frameCount = @ - 1,
                              !.bufs = Append(@, SubSeq(buf, 5, ReadInt32BE(buf, 0) + 4))],
                    Drop(buf, ReadInt32BE(buf, 0) + 4))
    ELSE [d |-> d, buf |-> buf]

\* The head of the outer loop: the 8-byte header [id, number of frames].
ReadHeader(d, buf) ==
  IF d.idSet THEN [d |-> d, buf |-> buf]
  ELSE [ d |-> [d EXCEPT !.idSet = TRUE, !.id = ReadInt32BE(buf, 0),
                         !.frameCount = ReadInt32BE(buf, 4)],
         buf |-> Drop(buf, 8) ]

\* The outer while (true) loop of _transform on the bytes buf.
RECURSIVE TransformLoop(_, _)
AfterDecode(f, r) ==
  IF ~r.ok
    \* this.emit('error', err); return;  -- _buf is not updated
    THEN [f.d EXCEPT !.error = r.error]
    ELSE TransformLoop(
           [f.d EXCEPT !.bufs = <<>>, !.idSet = FALSE, !.id = 0,
                       !.expectHandshake = r.expectHandshake,
                       !.out = Append(@, r.obj)],
           f.buf)
AfterFrames(f) ==
  IF f.d.frameCount # 0 THEN [f.d EXCEPT !.buf = f.buf]
  ELSE AfterDecode(f, Decode(f.d, f.d.id, Concat(f.d.bufs)))
AfterHeader(h) == AfterFrames(ReadFrames(h.d, h.buf))
TransformLoop(d, buf) ==
  IF ~d.idSet /\ Len(buf) < 8 THEN [d EXCEPT !.buf = buf]
  ELSE AfterHeader(ReadHeader(d, buf))

\* _transform(buf, encoding, cb)
Transform(d, chunk) == TransformLoop(d, d.buf \o chunk)

\* _flush()
Flush(d) ==
  IF Len(d.buf) # 0 \/ Len(d.bufs) # 0
    THEN [d EXCEPT !.error = "trailing data",
                   !.trailingData = d.buf \o Concat(d.bufs)]
    ELSE d

\* ------------------------------------------------------- codec: the steps
\* An encoder piped into a decoder of the same handshake type. codec.objs
\* are the objects written to the encoder, codec.stream its output bytes,
\* codec.pos the number of them the decoder has been given, in chunks of
\* any size.
CodecTypes == {"req", "res"}

Hash(b) == [i \in 1..HashLen |-> b]

SampleHandshakes(type) ==
  IF type = "req"
    THEN { None,
           <<Hash(1), None, Hash(1), None>>,
           <<Hash(1), Some(<<80>>), Hash(2), Some(<< <<<<7>>, <<5, 6>>>> >>)>> }
    ELSE { None,
           <<0, None, None, None>>,
           <<2, Some(<<80>>), Some(Hash(2)), Some(<< <<<<7>>, <<5, 6>>>> >>)>> }

SamplePackets ==
  { [headers |-> <<>>, body |-> <<0>>],
    [headers |-> <<>>, body |-> <<0, 0, 0, 0>>],
    [headers |-> << <<<<9>>, <<3, 4>>>> >>, body |-> <<1, 0>>] }

SampleIds == {258}

CodecObjects(type) ==
  [id : SampleIds, handshake : SampleHandshakes(type), packet : SamplePackets]

CodecInit(type) ==
  [ type |-> type, objs |-> <<>>, stream |-> <<>>, pos |-> 0,
    dec |-> DecoderInit(type), ended |-> FALSE ]

\* encoder.write(obj): the encoder's output goes to the stream.
CodecWrite(obj) ==
  /\ Len(codec.objs) < MaxObjs
  /\ codec' = [codec EXCEPT !.objs = Append(@, obj),
                            !.stream = @ \o EncoderTransform(codec.type, obj)]
  /\ UNCHANGED <<bridge, last, net>>

\* The decoder is given the next n bytes of the stream as one chunk; after
\* an error it takes no more input (its callback is never called).
CodecFeed(n) ==
  /\ ~codec.ended
  /\ codec.dec.error = "none"
  /\ codec.pos + n <= Len(codec.stream)
  /\ codec' = [codec EXCEPT
                 !.dec = Transform(@, SubSeq(codec.stream, codec.pos + 1, codec.pos + n)),
                 !.pos = @ + n]
  /\ UNCHANGED <<bridge, last, net>>

\* The decoder's input ends after the bytes given so far: _flush runs (it
\* does not after an error, the failed _transform never having called back).
CodecEnd ==
  /\ ~codec.ended
  /\ codec.dec.error = "none"
  /\ codec' = [codec EXCEPT !.dec = Flush(@), !.ended = TRUE]
  /\ UNCHANGED <<bridge, last, net>>

InitCodec ==
  /\ \E type \in CodecTypes : codec = CodecInit(type)
  /\ net = NetIdle
  /\ bridge = BridgeInit
  /\ last = [ op |-> "init", call |-> 0, err |-> Null, match |-> Null,
              closed |-> FALSE, pending |-> {},
              hs |-> NoHandshake, svc |-> Null ]

NextCodec ==
  \/ \E obj \in CodecObjects(codec.type) : CodecWrite(obj)
  \/ \E n \in 1..(Len(codec.stream) - codec.pos) : CodecFeed(n)
  \/ CodecEnd

SpecCodec == InitCodec /\ [][NextCodec]_vars

\* ------------------------------------------------------ codec: the claims
\* The decoder given the first n bytes of the stream as a single chunk.
OneChunk(n) == Transform(DecoderInit(codec.type), Take(codec.stream, n))

\* C3: the decoder given all the bytes the encoder produced for a sequence
\* of objects, each with or without a handshake, has emitted the same
\* sequence of objects and raised no error.
C3_RoundTrip ==
  codec.pos = Len(codec.stream) =>
    (codec.dec.out = codec.objs /\ codec.dec.error = "none")

\* C4: however the bytes given so far were split into chunks, the decoder
\* has emitted the same objects and is in the same parsing state (id,
\* remaining frame count, buffered bytes) as when given them in one chunk.
C4_ChunkingInvariance ==
  LET one == OneChunk(codec.pos)
      d == codec.dec
  IN /\ d.out = one.out
     /\ d.idSet = one.idSet /\ d.id = one.id /\ d.frameCount = one.frameCount
     /\ d.buf = one.buf /\ d.bufs = one.bufs

\* ================================================================= gateway
\* A service is identified by the first byte of its hash; the protocol text
\* of service h is the one-byte string <<ProtocolBase + h>>.
NoSvc == 0
ProtocolBase == 80
ProtocolText(svc) == <<ProtocolBase + svc>>
HashOf(svc) == Hash(svc)

\* new Service(JSON.parse(text)): the service of a protocol text, NoSvc when
\* the text does not parse.
ParseService(text) ==
  IF Len(text) = 1 /\ text[1] > ProtocolBase /\ text[1] < ProtocolBase + 10
    THEN text[1] - ProtocolBase ELSE NoSvc

\* discoveryService.hash
DiscoveryHash == Hash(9)

\* Keys of the handshake meta map, and header key of discovery responses.
LABELS_META == <<76>>
DEADLINE_META == <<68>>
PROTOCOLS_HEADER == <<72>>

\* map[key], <<>> when absent.
RECURSIVE MapGet(_, _)
MapGet(m, k) ==
  IF m = <<>> THEN None
  ELSE IF Head(m)[1] = k THEN Some(Head(m)[2]) ELSE MapGet(Tail(m), k)

\* hreq.meta && hreq.meta[key]
MetaGet(hreq, k) == IF hreq[4] = None THEN None ELSE MapGet(hreq[4][1], k)

\* utils.dateTimeType.fromBuffer / new Trace(deadline).active: the deadline
\* <<1>> is in the future, <<0>> is past, anything else does not decode.
DeadlineOk(buf) == buf \in {<<0>>, <<1>>}
TraceActive(deadline) == deadline = None \/ deadline = Some(<<1>>)

\* utils.mapOfJsonType.fromBuffer
Whole(r) == r.ok /\ r.rest = <<>>
LabelsOk(buf) == Whole(ReadMap(buf))

\* Router.service(clientSvc): the router's service for a client service, by
\* name. Services 1 and 2 are served under their own name, service 3 is
\* another version of service 1, service 4 has no server.
RouterService(services, clientSvc) ==
  LET name == IF clientSvc = 3 THEN 1 ELSE clientSvc
  IN IF \E i \in 1..Len(services) : services[i] = name THEN name ELSE NoSvc

\* serverSvcs.size === 1, router.services being a list.
ServicesSizeIsOne(services) == FALSE

\* systemErrorType.toBuffer(err)
UNKNOWN_CLIENT_PROTOCOL == <<11>>
CHANNEL_FAILURE == <<12>>

\* NettyPacket.forSystemError(err, headers)
ForSystemError(code, headers) ==
  [headers |-> headers, body |-> <<1, 0>> \o WBytes(code)]

\* The response handshake {match} with its absent fields at their defaults.
Hres(match) == <<match, None, None, None>>
BOTH == 0
CLIENT == 1
NONE == 2

GatewayInit(services) ==
  [ services |-> services,
    clientServices |-> {<<HashOf(services[i]), services[i]>> : i \in 1..Len(services)},
    clientSvc |-> NoSvc,
    closed |-> FALSE,
    dec |-> DecoderInit("req"),
    pending |-> {},
    events |-> <<>>,
    thrown |-> "none" ]

\* this._clientServices.get(hash)
ClientServiceOf(g, hash) ==
  IF \E e \in g.clientServices : e[1] = hash
    THEN (CHOOSE e \in g.clientServices : e[1] = hash)[2]
    ELSE NoSvc

\* this._clientServices.set(hash, svc)
ClientServiceSet(g, hash, svc) ==
  [g EXCEPT !.clientServices = {e \in @ : e[1] # hash} \cup {<<hash, svc>>}]

NoResponse == [id |-> 0, handshake |-> None, packet |-> NoPacket]
GwEvent(type, id, svc, err, obj) ==
  [type |-> type, id |-> id, svc |-> svc, err |-> err, obj |-> obj]

\* encoder.write({handshake, id, packet})
GwWrite(g, id, hres, packet) ==
  [g EXCEPT !.events = Append(@, GwEvent(IF g.closed THEN "unpiped" ELSE "write",
                         id, NoSvc, Null,
                         [id |-> id, handshake |-> hres, packet |-> packet]))]

\* router.emit('error', err)
RouterEmitError(g, err) ==
  [g EXCEPT !.events = Append(@, GwEvent("routerError", 0, NoSvc, err, NoResponse))]

\* close() of accept
GwClose(g) == IF g.closed THEN g ELSE [g EXCEPT !.closed = TRUE]

\* readable.emit('error', err): onReadableError closes, then tells the router.
ReadableEmitError(g, err) ==
  IF g.closed THEN [g EXCEPT !.thrown = "TypeError"]
  ELSE RouterEmitError(GwClose(g), err)

\* router.channel.call(trace, preq, cb): the continuation stays pending.
Route(g, id, hres) ==
  [g EXCEPT !.events = Append(@, GwEvent("route", id, g.clientSvc, Null, NoResponse)),
            !.pending = @ \cup {[id |-> id, hres |-> hres, svc |-> g.clientSvc]}]

\* const serverSvc = this.router.service(clientSvc); a missing server
\* service is dereferenced (serverSvc.protocol).
RouteResolved(g, id, serverSvc) ==
  IF serverSvc = NoSvc THEN [g EXCEPT !.thrown = "TypeError"]
  ELSE Route(g, id, Hres(BOTH))

\* Mutant of LearnService: the parsed client service is not recorded.
LearnServiceForgets(g, id, clientHash, svc) ==
  IF svc = NoSvc THEN ReadableEmitError(g, "bad protocol")
  ELSE RouteResolved([g EXCEPT !.clientSvc = svc], id, RouterService(g.services, svc))

\* clientSvc = new Service(JSON.parse(hreq.clientProtocol)), recorded under
\* the hash of the request.
LearnService(g, id, clientHash, svc) ==
  IF svc = NoSvc THEN ReadableEmitError(g, "bad protocol")
  ELSE RouteResolved(ClientServiceSet([g EXCEPT !.clientSvc = svc], clientHash, svc),
                     id, RouterService(g.services, svc))

\* if (!clientSvc) { ... } once clientSvc is what the cache holds.
Resolve(g, id, hreq) ==
  IF g.clientSvc # NoSvc
    THEN RouteResolved(g, id, RouterService(g.services, g.clientSvc))
  ELSE IF hreq[2] # None
    THEN LearnService(g, id, hreq[1], ParseService(hreq[2][1]))
  ELSE IF ServicesSizeIsOne(g.services)
    THEN [g EXCEPT !.thrown = "ReferenceError"]
  ELSE GwWrite(g, id, Hres(NONE), ForSystemError(UNKNOWN_CLIENT_PROTOCOL, <<>>))

\* The handshake part of the 'data' handler, after the discovery check.
ResolveAndRoute(g, id, hreq) ==
  Resolve([g EXCEPT !.clientSvc = ClientServiceOf(g, hreq[1])], id, hreq)

\* JSON.stringify(ptcls) for the protocols of router.services, in order.
ProtocolsOf(services) ==
  Concat([i \in 1..Len(services) |-> ProtocolText(services[i])])

\* Mutant of Discover: only the first service's protocol is listed.
DiscoverFirstOnly(g, id) ==
  GwWrite(g, id, Hres(BOTH),
          [ headers |-> << <<PROTOCOLS_HEADER,
                             WBytes(ProtocolsOf(IF g.services = <<>> THEN <<>>
                                                ELSE <<Head(g.services)>>))>> >>,
            body |-> <<0>> ])

\* The discovery branch of the 'data' handler.
Discover(g, id) ==
  GwWrite(g, id, Hres(BOTH),
          [ headers |-> << <<PROTOCOLS_HEADER, WBytes(ProtocolsOf(g.services))>> >>,
            body |-> <<0>> ])

\* The 'data' handler of accept.
GwOnData(g, obj) ==
  LET hreq == obj.handshake
      id == obj.id
  IN IF hreq = None /\ g.clientSvc = NoSvc
       THEN ReadableEmitError(g, "expected handshake")
     ELSE IF hreq = None THEN Route(g, id, None)
     ELSE
       LET deadline == MetaGet(hreq, DEADLINE_META)
           labels == MetaGet(hreq, LABELS_META)
       IN IF deadline # None /\ ~DeadlineOk(deadline[1])
            THEN ReadableEmitError(g, "bad deadline")
          ELSE IF ~TraceActive(deadline) THEN g
          ELSE IF labels # None /\ ~LabelsOk(labels[1])
            THEN ReadableEmitError(g, "bad labels")
          ELSE IF hreq[1] = DiscoveryHash
            THEN Discover(g, id)
          ELSE ResolveAndRoute(g, id, hreq)

\* Mutant of GwRespond: the continuation does not look at the writable.
GwRespondAlways(g, p, err, pres) ==
  IF err # Null
    THEN GwClose(GwWrite(g, p.id, p.hres,
                         ForSystemError(CHANNEL_FAILURE,
                                        IF pres = NoPacket THEN <<>> ELSE pres.headers)))
    ELSE GwWrite(g, p.id, p.hres, pres)

\* The continuation given to router.channel.call.
GwRespond(g, p, err, pres) ==
  IF g.closed THEN g
  ELSE IF err # Null
    THEN GwClose(GwWrite(g, p.id, p.hres,
                         ForSystemError(CHANNEL_FAILURE,
                                        IF pres = NoPacket THEN <<>> ELSE pres.headers)))
    ELSE GwWrite(g, p.id, p.hres, pres)

\* The gateway's decoder is given a chunk: every object it emits goes through
\* the 'data' handler; a decoder error goes to the router's error channel.
RECURSIVE GwHandleAll(_, _)
GwHandleAll(g, objs) ==
  IF objs = <<>> \/ g.thrown # "none" THEN g
  ELSE GwHandleAll(GwOnData(g, Head(objs)), Tail(objs))

GwDecoderError(g, error) ==
  IF error # "none" THEN RouterEmitError(g, error) ELSE g
GwDecoded(g, d) ==
  GwDecoderError(GwHandleAll([g EXCEPT !.dec = [d EXCEPT !.out = <<>>]], d.out),
                 d.error)
GwOnChunk(g, chunk) == GwDecoded(g, Transform(g.dec, chunk))

\* ---------------------------------------------------- gateway connection
\* net.up holds what a client's request encoder put on the wire (with the
\* object it was given), net.down what the gateway's response encoder wrote.
GwFresh(g) == [g EXCEPT !.events = <<>>]

EncodeAll(writes) ==
  [i \in 1..Len(writes) |-> EncoderTransform("res", writes[i].obj)]
GwWritten(g) == EncodeAll(SelectSeq(g.events, LAMBDA e : e.type = "write"))

\* The connection after a step of the gateway: what it wrote is on the wire.
NetAfter(n, g, step) ==
  [n EXCEPT !.gw = g, !.down = @ \o GwWritten(g), !.step = step]

NoReq == [id |-> 0, handshake |-> None, packet |-> NoPacket]
NetStep(op, obj) ==
  [ op |-> op, obj |-> obj, svc |-> net.gw.clientSvc,
    known |-> net.gw.clientServices, closed |-> net.gw.closed, err |-> Null ]

NetInit(services) ==
  [ gw |-> GatewayInit(services), up |-> <<>>, down |-> <<>>,
    bdec |-> DecoderInit("res"), written |-> 0,
    step |-> [ op |-> "init", obj |-> NoReq, svc |-> NoSvc,
               known |-> {}, closed |-> FALSE, err |-> Null ] ]

LabelsMeta == Some(<< <<LABELS_META, WMap(<<>>)>> >>)
HandshakeRequest(svc, withProtocol, meta) ==
  <<HashOf(svc), IF withProtocol THEN Some(ProtocolText(svc)) ELSE None,
    HashOf(svc), meta>>

\* Request handshakes of a raw client: none, a known service (naming the
\* server's hash, or a hash the server does not have), an unknown one
\* without and with its protocol, a service the router does not serve, a
\* protocol that does not parse, discovery, and an expired deadline.
RequestHandshakes ==
  { None,
    HandshakeRequest(1, FALSE, None),
    <<HashOf(1), None, Hash(7), None>>,
    HandshakeRequest(3, FALSE, LabelsMeta),
    HandshakeRequest(3, TRUE, LabelsMeta),
    HandshakeRequest(4, TRUE, None),
    <<HashOf(3), Some(<<1>>), HashOf(3), None>>,
    <<DiscoveryHash, None, DiscoveryHash, None>>,
    HandshakeRequest(1, FALSE, Some(<< <<DEADLINE_META, <<0>>>> >>)) }

RequestPacket == [headers |-> <<>>, body |-> <<0>>]
ResponsePacket(id) == [headers |-> <<>>, body |-> <<0, id>>]

\* What a router hands to the continuation of request id: cb(null, pres),
\* cb(err), or cb(err, pres) with response headers.
ErrorHeaders == << <<<<84>>, <<1>>>> >>
RouterAnswers(id) ==
  { [err |-> Null, pres |-> ResponsePacket(id)],
    [err |-> "router error", pres |-> NoPacket],
    [err |-> "router error", pres |-> [headers |-> ErrorHeaders, body |-> <<>>]] }

\* A client writes its next request to its encoder.
ClientWrite(hreq) ==
  /\ net.written < MaxObjs
  /\ LET obj == [id |-> net.written + 1, handshake |-> hreq, packet |-> RequestPacket]
     IN net' = [net EXCEPT
                  !.up = Append(@, [obj |-> obj, bytes |-> EncoderTransform("req", obj)]),
                  !.written = @ + 1,
                  !.gw = GwFresh(@),
                  !.step = NetStep("write", obj)]
  /\ UNCHANGED <<bridge, last, codec>>

\* A client that does not use NettyEncoder writes a frame group whose packet
\* frame is cut inside its header map (one entry announced, none present).
TruncatedHeaders == WLong(1)
TruncatedRequest(id) ==
  Int32BE(id) \o Int32BE(2)
    \o Frames(<< WHandshake("req", HandshakeRequest(1, TRUE, None)), TruncatedHeaders >>)
ClientWriteTruncated ==
  /\ net.written < MaxObjs
  /\ net' = [net EXCEPT
               !.up = Append(@, [obj |-> NoReq, bytes |-> TruncatedRequest(net.written + 1)]),
               !.written = @ + 1,
               !.gw = GwFresh(@),
               !.step = NetStep("writeBytes", NoReq)]
  /\ UNCHANGED <<bridge, last, codec>>

\* The gateway's readable delivers the next request's bytes to the decoder.
\* The decoder takes no input once unpiped (close), after it failed (its
\* callback is never called), or after its 'data' handler threw.
GwDeliver ==
  /\ net.up # <<>>
  /\ ~net.gw.closed /\ net.gw.thrown = "none" /\ net.gw.dec.error = "none"
  /\ net' = NetAfter([net EXCEPT !.up = Tail(@)],
                     GwOnChunk(GwFresh(net.gw), Head(net.up).bytes),
                     NetStep(IF Head(net.up).obj = NoReq THEN "deliverBytes" ELSE "deliver",
                             Head(net.up).obj))
  /\ UNCHANGED <<bridge, last, codec>>

\* The router calls the continuation of a routed request.
GwRouterRespond(p, err, pres) ==
  /\ p \in net.gw.pending
  /\ net' = NetAfter(net,
                     GwRespond([GwFresh(net.gw) EXCEPT !.pending = @ \ {p}], p, err, pres),
                     [NetStep("respond", [id |-> p.id, handshake |-> p.hres,
                                          packet |-> pres])
                        EXCEPT !.err = err])
  /\ UNCHANGED <<bridge, last, codec>>

\* onReadableEnd / onWritableFinish of accept: both only call close().
GwStreamDone ==
  /\ ~net.gw.closed
  /\ net' = [net EXCEPT !.gw = GwClose(GwFresh(@)),
                        !.step = NetStep("streamDone", NoReq)]
  /\ UNCHANGED <<bridge, last, codec>>

GatewayServices == {<<>>, <<1>>, <<1, 2>>}

InitGateway ==
  /\ \E services \in GatewayServices : net = NetInit(services)
  /\ bridge = BridgeInit
  /\ codec = CodecIdle
  /\ last = [ op |-> "init", call |-> 0, err |-> Null, match |-> Null,
              closed |-> FALSE, pending |-> {},
              hs |-> NoHandshake, svc |-> Null ]

NextGateway ==
  \/ \E hreq \in RequestHandshakes : ClientWrite(hreq)
  \/ ClientWriteTruncated
  \/ GwDeliver
  \/ \E p \in net.gw.pending :
       \E a \in RouterAnswers(p.id) : GwRouterRespond(p, a.err, a.pres)
  \/ GwStreamDone

SpecGateway == InitGateway /\ [][NextGateway]_vars

GwEvents(type) == SelectSeq(net.gw.events, LAMBDA e : e.type = type)

\* C9: when the gateway is delivered a request that has no handshake bytes,
\* on a connection whose previous request resolved a client service, the
\* decoder raises no error and the request is routed with that service.
C9_HandshakeFreeRouted ==
  ( /\ net.step.op = "deliver"
    /\ net.step.obj.handshake = None
    /\ net.step.svc # NoSvc )
  => /\ net.gw.dec.error = "none"
     /\ GwEvents("routerError") = <<>>
     /\ \E i \in 1..Len(GwEvents("route")) :
          /\ GwEvents("route")[i].id = net.step.obj.id
          /\ GwEvents("route")[i].svc = net.step.svc

\* ------------------------------------------- a bridge wired to a gateway
\* The bridge's services on the wire: "ca" is service 3, which the gateway
\* has not seen; "cb" is the gateway's own service 1.
SvcOf(hash) == IF hash = "ca" THEN 3 ELSE 1

\* The object _send gives the request encoder.
ToRequest(obj) ==
  [ id |-> obj.id,
    handshake |-> << HashOf(SvcOf(obj.clientHash)),
                     IF obj.clientProtocol = Undefined THEN None
                     ELSE Some(ProtocolText(SvcOf(obj.clientHash))),
                     HashOf(SvcOf(obj.serverHash)),
                     IF obj.meta = Undefined THEN None ELSE LabelsMeta >>,
    packet |-> RequestPacket ]

MatchName(i) == IF i = BOTH THEN "BOTH" ELSE IF i = CLIENT THEN "CLIENT" ELSE "NONE"

\* The handshake of a decoded response, as the bridge's handler reads it.
ToHandshake(h) ==
  IF h = None THEN NoHandshake
  ELSE [ present |-> TRUE, match |-> MatchName(h[1]),
         serverHash |-> IF h[3] = None THEN Null ELSE "sh",
         serverProtocol |-> IF h[2] = None THEN Null
                            ELSE IF ParseService(h[2][1]) # NoSvc THEN "P"
                            ELSE BadProtocol ]

\* What the bridge's encoder put on the wire during a step.
EncodeRequests(writes) ==
  [ i \in 1..Len(writes) |->
      [ obj |-> ToRequest(writes[i].obj),
        bytes |-> EncoderTransform("req", ToRequest(writes[i].obj)) ] ]
BridgeWritten(s) ==
  EncodeRequests(SelectSeq(s.events, LAMBDA e : e.type = "write" /\ e.obj.piped))

\* The bridge's decoder is given a chunk: every object it emits goes through
\* the 'data' handler; a decoder error destroys the bridge.
RECURSIVE BridgeHandleAll(_, _)
BridgeHandleAll(s, objs) ==
  IF objs = <<>> \/ s.thrown # "none" THEN s
  ELSE BridgeHandleAll(OnData(s, Head(objs).id, ToHandshake(Head(objs).handshake), "body"),
                       Tail(objs))
BridgeDecoderError(s, error) == IF error # "none" THEN Destroy(s, error) ELSE s
BridgeDecoded(s, d) == BridgeDecoderError(BridgeHandleAll(s, d.out), d.error)

\* channel.call on the bridge, with an active trace and valid labels.
E2ECall(id, svc) ==
  /\ NextCall # 0
  /\ id \notin PendingIds(bridge)
  /\ bridge' = ChannelCall([Fresh(bridge) EXCEPT !.calls[NextCall].issued = TRUE],
                           [id |-> id, service |-> svc, call |-> NextCall], TRUE)
  /\ net' = [net EXCEPT !.up = @ \o BridgeWritten(bridge'),
                        !.gw = GwFresh(@),
                        !.step = NetStep("call", NoReq)]
  /\ last' = Last("call", NextCall, Null, Null)
  /\ UNCHANGED codec

FirstOf(objs) == IF objs = <<>> THEN NoReq ELSE Head(objs)
CallOf(s, obj) ==
  IF obj.id \in PendingIds(s) THEN s.callbacks[obj.id].preq.call ELSE 0
DataStep(s, obj) ==
  Last("response", CallOf(s, obj), Null,
       IF obj.handshake = None THEN Null ELSE MatchName(obj.handshake[1]))
Decoding(d) ==
  /\ bridge' = BridgeDecoded(Fresh(bridge), d)
  /\ net' = [net EXCEPT !.down = Tail(@),
                        !.bdec = [d EXCEPT !.out = <<>>],
                        !.up = @ \o BridgeWritten(bridge'),
                        !.gw = GwFresh(@),
                        !.step = NetStep("data", FirstOf(d.out))]
  /\ last' = DataStep(bridge, FirstOf(d.out))

\* The bridge's readable delivers the next response's bytes to its decoder.
BridgeDeliver ==
  /\ net.down # <<>>
  /\ bridge.readable = "open" /\ ~bridge.released
  /\ bridge.thrown = "none" /\ net.bdec.error = "none"
  /\ Decoding(Transform(net.bdec, Head(net.down)))
  /\ UNCHANGED codec

SeveralServices == <<1, 2>>

InitE2E ==
  /\ net = NetInit(SeveralServices)
  /\ bridge = BridgeInit
  /\ codec = CodecIdle
  /\ last = [ op |-> "init", call |-> 0, err |-> Null, match |-> Null,
              closed |-> FALSE, pending |-> {},
              hs |-> NoHandshake, svc |-> Null ]

NextE2E ==
  \/ \E id \in Ids, svc \in ClientHashes : E2ECall(id, svc)
  \/ GwDeliver
  \/ \E p \in net.gw.pending :
       \E a \in RouterAnswers(p.id) : GwRouterRespond(p, a.err, a.pres)
  \/ BridgeDeliver

SpecE2E == InitE2E /\ [][NextE2E]_vars

Known(g, hash) == \E e \in g.clientServices : e[1] = hash
UnknownProtocolAnswer(id) ==
  [ id |-> id, handshake |-> Hres(NONE),
    packet |-> ForSystemError(UNKNOWN_CLIENT_PROTOCOL, <<>>) ]
RetriedResponses(id) ==
  { [ id |-> id, handshake |-> Hres(BOTH),
      packet |-> IF a.err = Null THEN a.pres
                 ELSE ForSystemError(CHANNEL_FAILURE, a.pres.headers) ] :
    a \in RouterAnswers(id) }

\* C10: between a bridge and a gateway of several services: a request whose
\* client hash the gateway does not know and that carries no client protocol
\* is answered NONE with the UNKNOWN_CLIENT_PROTOCOL system error, without a
\* call to the router; on that answer the bridge sends one retry, carrying
\* the client protocol; on the retry the gateway records the client service
\* under the hash, routes the request and answers BOTH; the continuation is
\* invoked once, with the response to the retry, and the request was then
\* written twice.
C10_UnknownHashRetry ==
  LET step == net.step
      hreq == step.obj.handshake
      c == last.call
  IN
  /\ \A d \in CallIdx : bridge.calls[d].cbCount <= 1 /\ bridge.calls[d].sends <= 2
  /\ ( step.op = "deliver" /\ hreq # None /\ hreq[2] = None
       /\ ~Known(net.gw, hreq[1]) )
     => /\ GwEvents("route") = <<>>
        /\ GwEvents("write") =
             << GwEvent("write", step.obj.id, NoSvc, Null,
                        UnknownProtocolAnswer(step.obj.id)) >>
  /\ (step.op = "data" /\ last.match = "NONE" /\ c # 0)
     => /\ CbEvents(c) = <<>>
        /\ IsPending(c)
        /\ bridge.calls[c].sends = 2
        /\ Len(WriteEvents(c)) = 1
        /\ WriteEvents(c)[1].obj.piped
        /\ WriteEvents(c)[1].obj.id = step.obj.id
        /\ WriteEvents(c)[1].obj.clientProtocol = ProtocolOf(WriteEvents(c)[1].obj.clientHash)
  /\ (step.op = "deliver" /\ hreq # None /\ hreq[2] # None)
     => /\ <<hreq[1], ParseService(hreq[2][1])>> \in net.gw.clientServices
        /\ net.gw.clientSvc = ParseService(hreq[2][1])
        /\ Len(GwEvents("route")) = 1
        /\ GwEvents("route")[1].id = step.obj.id
        /\ GwEvents("write") = <<>>
  /\ step.op = "respond"
     => \A k \in 1..Len(GwEvents("write")) :
          GwEvents("write")[k].obj \in RetriedResponses(step.obj.id)
  /\ (step.op = "data" /\ c # 0 /\ bridge.calls[c].sends = 2 /\ CbEvents(c) # <<>>)
     => /\ Len(CbEvents(c)) = 1
        /\ CbEvents(c)[1].arg.err = Null
        /\ bridge.calls[c].cbCount = 1
        /\ step.obj \in RetriedResponses(step.obj.id)
        /\ WriteEvents(c) = <<>>

\* The continuation of a call of the unknown service has just been invoked
\* with the router's response, after one NONE answer and one retry.
C10_Witness ==
  /\ net.step.op = "data" /\ last.call # 0 /\ last.match = "BOTH"
  /\ bridge.calls[last.call].sends = 2
  /\ Len(CbEvents(last.call)) = 1
  /\ net.step.obj.packet = ResponsePacket(net.step.obj.id)
  /\ Known(net.gw, HashOf(3))

\* C11: a request whose client hash is the discovery service's, with an
\* active trace, is answered at once: one response for its id, match BOTH,
\* body the byte 0, header avro.protocols the encoded list of the protocols
\* of the router's services in order; the router is not called and neither
\* clientSvc nor clientServices changes.
C11_Discovery ==
  ( /\ net.step.op = "deliver"
    /\ net.step.obj.handshake # None
    /\ net.step.obj.handshake[1] = DiscoveryHash
    /\ TraceActive(MetaGet(net.step.obj.handshake, DEADLINE_META)) )
  => /\ GwEvents("write") =
          << GwEvent("write", net.step.obj.id, NoSvc, Null,
               [ id |-> net.step.obj.id, handshake |-> Hres(BOTH),
                 packet |-> [ headers |-> << <<PROTOCOLS_HEADER,
                                WBytes(ProtocolsOf(net.gw.services))>> >>,
                              body |-> <<0>> ] ]) >>
     /\ GwEvents("route") = <<>>
     /\ GwEvents("routerError") = <<>>
     /\ net.gw.pending = {p \in net.gw.pending : p.id # net.step.obj.id}
     /\ net.gw.clientSvc = net.step.svc
     /\ net.gw.clientServices = net.step.known
     /\ Len(net.down) >= 1
     /\ net.down[Len(net.down)] = EncoderTransform("res", GwEvents("write")[1].obj)

\* A discovery request has just been answered by a gateway of two services,
\* on a connection that had already resolved a client service.
C11_Witness ==
  /\ net.step.op = "deliver"
  /\ net.step.obj.handshake # None
  /\ net.step.obj.handshake[1] = DiscoveryHash
  /\ Len(net.gw.services) = 2
  /\ net.step.svc # NoSvc
  /\ Len(GwEvents("write")) = 1

\* The response handshake that names the server's service.
HresWithServer(match, serverSvc) ==
  <<match, Some(ProtocolText(serverSvc)), Some(HashOf(serverSvc)), None>>

\* C12: a request whose client hash is known but whose handshake names a
\* server hash that is not the hash of the server's service for that client
\* is routed, and its response handshake is match CLIENT with the server
\* service's protocol and hash.
C12_ClientMatch ==
  ( /\ net.step.op = "deliver"
    /\ net.step.obj.handshake # None
    /\ Known(net.gw, net.step.obj.handshake[1])
    /\ ClientServiceOf(net.gw, net.step.obj.handshake[1]) = 1
    /\ net.step.obj.handshake[3] # HashOf(1) )
  => /\ \E i \in 1..Len(GwEvents("route")) : GwEvents("route")[i].id = net.step.obj.id
     /\ \E p \in net.gw.pending :
          p.id = net.step.obj.id /\ p.hres = HresWithServer(CLIENT, 1)

\* C13: the NONE answer to a request with an unknown client hash and no
\* client protocol names the router's service (its protocol and its hash)
\* when the router owns exactly one, and names none otherwise.
C13_NoneNamesOnlyService ==
  ( /\ net.step.op = "deliver"
    /\ net.step.obj.handshake # None
    /\ net.step.obj.handshake[1] # DiscoveryHash
    /\ TraceActive(MetaGet(net.step.obj.handshake, DEADLINE_META))
    /\ ~Known(net.gw, net.step.obj.handshake[1])
    /\ net.step.obj.handshake[2] = None )
  => /\ net.gw.thrown = "none"
     /\ Len(GwEvents("write")) = 1
     /\ GwEvents("write")[1].obj.handshake =
          IF Len(net.gw.services) = 1
            THEN HresWithServer(NONE, net.gw.services[1])
            ELSE Hres(NONE)

\* The offset in codec.stream at which the last frame group wholly within
\* the first pos bytes ends.
RECURSIVE LastGroupEnd(_, _, _)
LastGroupEnd(objs, at, pos) ==
  IF objs = <<>> \/ at + Len(EncoderTransform(codec.type, Head(objs))) > pos THEN at
  ELSE LastGroupEnd(Tail(objs), at + Len(EncoderTransform(codec.type, Head(objs))), pos)

Leftover == SubSeq(codec.stream, LastGroupEnd(codec.objs, 0, codec.pos) + 1, codec.pos)

\* C14: when the input ends and the decoder fails with 'trailing data', the
\* error's trailingData is the input that followed the last complete frame
\* group, byte for byte and in order.
C14_TrailingData ==
  (codec.ended /\ codec.dec.error = "trailing data")
    => codec.dec.trailingData = Leftover

\* C15: a decoder given a first frame group whose bytes do not decode with
\* a handshake decodes them without one: it raises no error, emits the
\* object with a null handshake and is in no-handshake mode from then on.
C15_StickyDowngrade ==
  ( /\ Len(codec.objs) >= 1
    /\ codec.objs[1].handshake = None
    /\ ~DecodeWith(codec.type, TRUE, ToPayload(codec.objs[1].packet)).ok
    /\ codec.pos >= Len(EncoderTransform(codec.type, codec.objs[1])) )
  => /\ codec.dec.error \in {"none", "trailing data"}
     /\ Len(codec.dec.out) >= 1
     /\ codec.dec.out[1] = codec.objs[1]
     /\ ~codec.dec.expectHandshake

\* C16: a response for a pending call that carries a serverProtocol (one that
\* parses) leaves hashes[clientHash] equal to the response's serverHash and
\* serverServices[serverHash] holding the service built from that protocol;
\* and in every state each hash recorded in hashes has its service recorded.
C16_ServerProtocolRecorded ==
  /\ ( /\ last.op = "response" /\ last.svc # Null
       /\ last.hs.serverProtocol # Null /\ Parsable(last.hs.serverProtocol) )
     => /\ bridge.hashes[last.svc] = last.hs.serverHash
        /\ last.hs.serverHash \in DOMAIN bridge.serverServices
        /\ bridge.serverServices[last.hs.serverHash] = last.hs.serverProtocol
  /\ \A ch \in ClientHashes :
       bridge.hashes[ch] # Null => bridge.serverServices[bridge.hashes[ch]] # Null

\* C17: a response for a pending call whose serverProtocol does not parse is
\* fatal: the bridge becomes closed, the continuation of every pending call
\* is invoked with 'bridge destroyed', the parse error is emitted, and hashes
\* and serverServices are left as they were.
C17_ParseFailureFatal ==
  [][ ( /\ last'.op = "response" /\ last'.svc # Null
        /\ last'.hs.serverProtocol # Null /\ ~Parsable(last'.hs.serverProtocol) )
      => /\ bridge'.closed
         /\ PendingIds(bridge') = {}
         /\ \A c \in PendingCalls(bridge) :
              /\ Len(CbEvents(c)') = 1
              /\ CbEvents(c)'[1].arg = Interrupt
         /\ Events("error")' # <<>>
         /\ bridge'.hashes = bridge.hashes
         /\ bridge'.serverServices = bridge.serverServices ]_vars

\* C18: when the serialization of trace.labels fails during a call on an
\* open bridge, the continuation is failed with that error and nothing else
\* happens: pending, hashes, serverServices and closed are unchanged, no
\* handler is registered on the trace and nothing is written to the encoder.
C18_LabelsFailureLocal ==
  [][ \A c \in CallIdx :
        (last'.op = "call" /\ last'.call = c /\ last'.err = LabelsError)
        => /\ Len(CbEvents(c)') = 1
           /\ CbEvents(c)'[1].arg = CbError(LabelsError)
           /\ bridge'.callbacks = bridge.callbacks
           /\ bridge'.hashes = bridge.hashes
           /\ bridge'.serverServices = bridge.serverServices
           /\ bridge'.closed = bridge.closed
           /\ bridge'.calls[c].handler = 0
           /\ Events("write")' = <<>> ]_vars

\* C19: when the continuation of a routed request reports an error on an
\* open connection, the gateway writes exactly one object, the system error
\* for that id with the request's handshake response and the response headers
\* provided, and closes the connection; a continuation that fires on a closed
\* connection (after an error response or after the streams finished) writes
\* nothing, and no step of a closed connection writes.
C19_ErrorClosesThenDrops ==
  /\ net.step.closed =>
       (GwEvents("write") = <<>> /\ GwEvents("unpiped") = <<>>)
  /\ (net.step.op = "respond" /\ ~net.step.closed /\ net.step.err # Null) =>
       /\ net.gw.closed
       /\ GwEvents("unpiped") = <<>>
       /\ Len(GwEvents("write")) = 1
       /\ GwEvents("write")[1].obj =
            [ id |-> net.step.obj.id, handshake |-> net.step.obj.handshake,
              packet |-> ForSystemError(CHANNEL_FAILURE, net.step.obj.packet.headers) ]

\* A continuation has just fired, and was dropped, on a connection that an
\* error response with headers closed while another request was in flight.
C19_Witness ==
  /\ net.step.op = "respond" /\ net.step.closed
  /\ net.down # <<>>
  /\ \E id \in 1..MaxObjs :
       EncoderTransform("res",
         [ id |-> id, handshake |-> Hres(BOTH),
           packet |-> ForSystemError(CHANNEL_FAILURE, ErrorHeaders) ])
       = net.down[Len(net.down)]

\* C20: when the gateway's decoder raises an error, the error is emitted on
\* the router's error channel and the connection is closed, and the responses
\* of the requests still in flight on it are dropped.
C20_DecoderErrorCloses ==
  /\ (net.step.op \in {"deliver", "deliverBytes"} /\ net.gw.dec.error # "none")
     => /\ Len(GwEvents("routerError")) = 1
        /\ GwEvents("routerError")[1].err = net.gw.dec.error
        /\ net.gw.closed
  /\ (net.step.op = "respond" /\ net.gw.dec.error # "none")
     => GwEvents("write") = <<>>

\* C21: on a connection whose clientSvc is set, a request with a handshake
\* that resolves no client service and raises no error (answered NONE,
\* a discovery request, or dropped for an expired deadline) leaves clientSvc
\* as it was, so that a later request without handshake is routed with it.
C21_ClientSvcSticky ==
  ( /\ net.step.op = "deliver"
    /\ net.step.obj.handshake # None
    /\ net.step.svc # NoSvc
    /\ GwEvents("route") = <<>>
    /\ GwEvents("routerError") = <<>>
    /\ net.gw.thrown = "none" /\ net.gw.dec.error = "none" )
  => net.gw.clientSvc = net.step.svc

\* C22: when the decoder's input ends inside a frame group whose 8-byte
\* header it has received (whatever follows the header, nothing included),
\* the decoder fails with 'trailing data'; when the input ends exactly where
\* a frame group ends, it raises no error.
C22_UnfinishedGroupFails ==
  codec.ended =>
    /\ Len(Leftover) >= 8 => codec.dec.error = "trailing data"
    /\ Len(Leftover) = 0 => codec.dec.error = "none"
====
